---- MODULE Spec2Model ----
(***************************************************************************)
(* Model of src/proxy.py: the streaming translator stream_generator, the   *)
(* finish-reason mapping map_stop_reason and the schema sanitizer          *)
(* remove_uri_format.                                                      *)
(*                                                                         *)
(* Strings that are concatenated or compared piecewise (text fragments,    *)
(* tool-call argument fragments) are sequences of one-character strings.   *)
(* Python's None / an absent key is the string None where a string is      *)
(* expected.                                                               *)
(***************************************************************************)
EXTENDS Integers, Sequences, FiniteSets, TLC

VARIABLES
    pc,                      \* position of the generator
    events,                  \* SSE events yielded so far, in order
    text_block_started,      \* local of stream_generator
    tool_call_accumulators,  \* local dict, as the sequence of its items in insertion order
    usage,                   \* local of stream_generator
    last_chunk,              \* local of stream_generator
    status,                  \* outcome of the backend request (0 before it is made)
    consumed,                \* backend lines pulled from aiter_lines so far
    schema,                  \* sanitizer: the tree under remove_uri_format
    original,                \* sanitizer: the tree the run started from
    applied,                 \* sanitizer: number of applications so far
    payload,                 \* messages_proxy: the inbound request body
    messages,                \* messages_proxy: the outbound message list
    at,                      \* messages_proxy: where the handler stands
    http,                    \* messages_proxy: the response handed to the client
    data                     \* handle_non_stream: the backend's response body

vars == <<pc, events, text_block_started, tool_call_accumulators, usage,
          last_chunk, status, consumed, schema, original, applied,
          payload, messages, at, http, data>>

streamVars == <<pc, events, text_block_started, tool_call_accumulators, usage,
                last_chunk, status, consumed>>

sanitizerVars == <<schema, original, applied>>

requestVars == <<payload, messages, at, http, data>>

----------------------------------------------------------------------------
(* Bounds *)

MaxLines == 3       \* backend lines per response
MaxIdx == 1         \* tool-call indices are 0..MaxIdx
MaxDepth == 2       \* nesting depth of schema trees
MaxApply == 2       \* applications of the sanitizer per run
MaxMsgs == 2        \* inbound messages of a request

None == "None"

----------------------------------------------------------------------------
(* Backend data: usage objects, tool-call deltas, chunks, lines *)

NoUsage == [kind |-> "absent", has_completion |-> FALSE, completion_tokens |-> 0]

EmptyUsage == [kind |-> "empty", has_completion |-> FALSE, completion_tokens |-> 0]

ScalarUsage == [kind |-> "scalar", has_completion |-> FALSE, completion_tokens |-> 0]

Counters(n) == [kind |-> "counters", has_completion |-> TRUE, completion_tokens |-> n]

\* Python truthiness of chunk.get('usage'): an absent key (None) and {} are falsy
Truthy(u) == u.kind \in {"scalar", "counters"}

ToolCallDelta(hasIndex, idx, id, name, args) ==
    [has_index |-> hasIndex, index |-> idx, id |-> id, name |-> name, arguments |-> args]

Delta(role, content, tcs) == [role |-> role, content |-> content, tool_calls |-> tcs]

EmptyDelta == Delta(FALSE, <<>>, <<>>)

\* choices: "absent" (no key), "empty" ([]), "one" (a first choice with delta and finish_reason)
Chunk(u, choices, delta, finish) ==
    [usage |-> u, choices |-> choices, delta |-> delta, finish_reason |-> finish]

EmptyChunk == Chunk(NoUsage, "absent", EmptyDelta, None)

\* prefix: "data: ", "data:" (no blank) or "other"; payload: what follows the prefix
Line(prefix, body, chunk) == [prefix |-> prefix, payload |-> body, chunk |-> chunk]

He == <<"H", "e">>

llo == <<"l", "l", "o">>

Frag1 == <<"{", "a">>

Frag2 == <<"}">>

Indices == 0 .. MaxIdx

ObjectLine(c) == Line("data: ", "object", c)

TextLine(t) == ObjectLine(Chunk(NoUsage, "one", Delta(FALSE, t, <<>>), None))

ToolLine(tcs) == ObjectLine(Chunk(NoUsage, "one", Delta(FALSE, <<>>, tcs), None))

FinishLine(f) == ObjectLine(Chunk(NoUsage, "one", EmptyDelta, f))

UsageLine(u) == ObjectLine(Chunk(u, "absent", EmptyDelta, None))

First(i, args) == ToolCallDelta(TRUE, i, "call_a", "get", args)

More(i, args) == ToolCallDelta(TRUE, i, "", "", args)

ToolLines ==
    UNION {{ToolLine(<<First(i, <<>>)>>), ToolLine(<<First(i, Frag1)>>),
            ToolLine(<<More(i, Frag2)>>)} : i \in Indices}

Lines ==
    {Line("other", "object", EmptyChunk),
     Line("data: ", "[DONE]", EmptyChunk),
     Line("data:", "[DONE]", EmptyChunk),
     Line("data: ", "garbage", EmptyChunk),
     Line("data: ", "scalar", EmptyChunk),
     TextLine(He),
     ObjectLine(Chunk(NoUsage, "one", Delta(FALSE, llo, <<>>), "stop")),
     FinishLine("tool_calls"),
     ObjectLine(Chunk(NoUsage, "one", Delta(TRUE, <<>>, <<>>), "content_filter")),
     UsageLine(Counters(2)), UsageLine(ScalarUsage), UsageLine(EmptyUsage),
     ObjectLine(Chunk(Counters(2), "empty", EmptyDelta, None)),
     ObjectLine(Chunk(Counters(1), "one", EmptyDelta, "length")),
     ObjectLine(Chunk(NoUsage, "one", Delta(FALSE, He, <<First(0, Frag1)>>), None)),
     ToolLine(<<First(1, Frag1), First(0, Frag1)>>),
     ToolLine(<<More(1, Frag1), ToolCallDelta(FALSE, 0, "", "", Frag2)>>)}
    \cup ToolLines

----------------------------------------------------------------------------
(* Events *)

Event(type, index, block, id, name, text, stop_reason, output_tokens) ==
    [type |-> type, index |-> index, block |-> block, id |-> id, name |-> name,
     text |-> text, stop_reason |-> stop_reason, output_tokens |-> output_tokens]

MessageStart == Event("message_start", -1, "none", "", "", <<>>, None, 0)

Ping == Event("ping", -1, "none", "", "", <<>>, None, 0)

TextBlockStart == Event("content_block_start", 0, "text", "", "", <<>>, None, 0)

TextDelta(t) == Event("content_block_delta", 0, "text_delta", "", "", t, None, 0)

ToolBlockStart(idx, id, name) ==
    Event("content_block_start", idx, "tool_use", id, name, <<>>, None, 0)

InputJsonDelta(idx, arg_chunk) ==
    Event("content_block_delta", idx, "input_json_delta", "", "", arg_chunk, None, 0)

ContentBlockStop(idx) == Event("content_block_stop", idx, "none", "", "", <<>>, None, 0)

MessageDelta(stop_reason, output_tokens) ==
    Event("message_delta", -1, "none", "", "", <<>>, stop_reason, output_tokens)

MessageStop == Event("message_stop", -1, "none", "", "", <<>>, None, 0)

----------------------------------------------------------------------------
(* map_stop_reason *)

map_stop_reason(finish_reason) ==
    IF finish_reason = None THEN "end_turn"
    ELSE CASE finish_reason = "tool_calls" -> "tool_use"
           [] finish_reason = "stop" -> "end_turn"
           [] finish_reason = "length" -> "max_tokens"
           [] OTHER -> "end_turn"

----------------------------------------------------------------------------
(* stream_generator: the body of the line loop *)

\* line.startswith('data:')
IsDataLine(line) == line.prefix \in {"data: ", "data:"}

\* line[len('data: '):].strip(): six characters are cut whatever the prefix was,
\* so after the five-character prefix "data:" the payload loses its first
\* character ("[DONE]" becomes "DONE]", "{...}" becomes "...}", "5" becomes "")
data_str(line) == IF line.prefix = "data: " THEN line.payload ELSE "garbage"

\* json.loads(data_str) raises JSONDecodeError
JSONDecodeError(line) == data_str(line) = "garbage"

\* idx in tool_call_accumulators
InAccumulators(acc, idx) == \E k \in 1 .. Len(acc) : acc[k].idx = idx

\* tool_call_accumulators[idx]
AccumulatorOf(acc, idx) == acc[CHOOSE k \in 1 .. Len(acc) : acc[k].idx = idx]

\* tool_call_accumulators[idx] = {'id': ..., 'name': ..., 'args': ''}
CreateAccumulator(acc, idx, id, name) ==
    Append(acc, [idx |-> idx, id |-> id, name |-> name, args |-> <<>>])

\* (variant: the fragment is put in front of the accumulated string)
AppendArgs_m(acc, idx, arg_chunk) ==
    [k \in 1 .. Len(acc) |->
        IF acc[k].idx = idx THEN [acc[k] EXCEPT !.args = arg_chunk \o @] ELSE acc[k]]

\* tool_call_accumulators[idx]['args'] += arg_chunk
AppendArgs(acc, idx, arg_chunk) ==
    [k \in 1 .. Len(acc) |->
        IF acc[k].idx = idx THEN [acc[k] EXCEPT !.args = @ \o arg_chunk] ELSE acc[k]]

\* (variant: every fragment overwrites the accumulator's id and name)
ProcessToolCallDelta_m(tc, acc) ==
    IF ~tc.has_index
    THEN [acc |-> acc, events |-> <<>>, raised |-> TRUE]
    ELSE LET idx == tc.index
             isNew == ~InAccumulators(acc, idx)
             acc0 == IF isNew THEN CreateAccumulator(acc, idx, tc.id, tc.name) ELSE acc
             acc1 == [k \in 1 .. Len(acc0) |->
                        IF acc0[k].idx = idx
                        THEN [acc0[k] EXCEPT !.id = tc.id, !.name = tc.name]
                        ELSE acc0[k]]
             ev1 == IF isNew THEN <<ToolBlockStart(idx, tc.id, tc.name)>> ELSE <<>>
             arg_chunk == tc.arguments
             acc2 == IF arg_chunk # <<>> THEN AppendArgs(acc1, idx, arg_chunk) ELSE acc1
             ev2 == IF arg_chunk # <<>> THEN <<InputJsonDelta(idx, arg_chunk)>> ELSE <<>>
         IN [acc |-> acc2, events |-> ev1 \o ev2, raised |-> FALSE]

\* one iteration of "for tool_call_delta in delta['tool_calls']"
ProcessToolCallDelta(tc, acc) ==
    IF ~tc.has_index
    THEN [acc |-> acc, events |-> <<>>, raised |-> TRUE]
    ELSE LET idx == tc.index
             isNew == ~InAccumulators(acc, idx)
             acc1 == IF isNew THEN CreateAccumulator(acc, idx, tc.id, tc.name) ELSE acc
             ev1 == IF isNew THEN <<ToolBlockStart(idx, tc.id, tc.name)>> ELSE <<>>
             arg_chunk == tc.arguments
             acc2 == IF arg_chunk # <<>> THEN AppendArgs(acc1, idx, arg_chunk) ELSE acc1
             ev2 == IF arg_chunk # <<>> THEN <<InputJsonDelta(idx, arg_chunk)>> ELSE <<>>
         IN [acc |-> acc2, events |-> ev1 \o ev2, raised |-> FALSE]

RECURSIVE ProcessToolCalls(_, _)
ProcessToolCalls(tcs, acc) ==
    IF tcs = <<>>
    THEN [acc |-> acc, events |-> <<>>, raised |-> FALSE]
    ELSE LET r == ProcessToolCallDelta(Head(tcs), acc)
         IN IF r.raised
            THEN r
            ELSE LET rest == ProcessToolCalls(Tail(tcs), r.acc)
                 IN [acc |-> rest.acc, events |-> r.events \o rest.events,
                     raised |-> rest.raised]

\* (variant: usage = chunk.get('usage', {}), whatever the chunk holds)
UsageAfter_m(u, chunk) == IF chunk.usage.kind = "absent" THEN EmptyUsage ELSE chunk.usage

\* if chunk.get('usage'): usage = chunk['usage']
UsageAfter(u, chunk) == IF Truthy(chunk.usage) THEN chunk.usage ELSE u

\* (variant: the text block is started again with every text fragment)
TextEvents_m(started, content) ==
    IF content # <<>> THEN <<TextBlockStart, TextDelta(content)>> ELSE <<>>

\* if delta.get('content'): the text block's start (first time) and delta
TextEvents(started, content) ==
    IF content # <<>>
    THEN (IF ~started THEN <<TextBlockStart>> ELSE <<>>) \o <<TextDelta(content)>>
    ELSE <<>>

\* not delta
DeltaIsEmpty(delta) == ~delta.role /\ delta.content = <<>> /\ delta.tool_calls = <<>>

Locals(started, acc, u, last) ==
    [text_block_started |-> started, acc |-> acc, usage |-> u, last_chunk |-> last]

Outcome(st, evs, next) == [st |-> st, events |-> evs, next |-> next]

\* (variant: the failed parse also forgets the last chunk)
AfterDecodeError_m(st) ==
    Outcome(Locals(st.text_block_started, st.acc, st.usage, EmptyChunk), <<>>, "streaming")

\* what a failed json.loads leaves behind
AfterDecodeError(st) == Outcome(st, <<>>, "streaming")

\* the part of the loop body after a successful json.loads of a mapping
ProcessChunk(chunk, st) ==
    LET st1 == Locals(st.text_block_started, st.acc, UsageAfter(st.usage, chunk), chunk)
    IN IF chunk.choices = "empty"
       THEN Outcome(st1, <<>>, "error")                       \* [][0]: IndexError
       ELSE LET delta == IF chunk.choices = "absent" THEN EmptyDelta ELSE chunk.delta
            IN IF DeltaIsEmpty(delta)
               THEN Outcome(st1, <<>>, "streaming")
               ELSE LET tev == TextEvents(st.text_block_started, delta.content)
                        started == st.text_block_started \/ delta.content # <<>>
                        r == ProcessToolCalls(delta.tool_calls, st.acc)
                    IN Outcome(Locals(started, r.acc, st1.usage, chunk),
                               tev \o r.events,
                               IF r.raised THEN "error" ELSE "streaming")

\* (variant: the terminator is skipped like any other line, the loop goes on)
ProcessDataLine_m(line, st) ==
    IF data_str(line) = "[DONE]" THEN Outcome(st, <<>>, "streaming")
    ELSE IF JSONDecodeError(line) THEN AfterDecodeError(st)
    ELSE IF data_str(line) = "scalar"
         THEN Outcome(Locals(st.text_block_started, st.acc, st.usage, EmptyChunk),
                      <<>>, "error")
    ELSE ProcessChunk(line.chunk, st)

\* the loop body for a line that starts with 'data:'
ProcessDataLine(line, st) ==
    IF data_str(line) = "[DONE]" THEN Outcome(st, <<>>, "closing")
    ELSE IF JSONDecodeError(line) THEN AfterDecodeError(st)
    ELSE IF data_str(line) = "scalar"
         THEN Outcome(Locals(st.text_block_started, st.acc, st.usage, EmptyChunk),
                      <<>>, "error")                          \* chunk.get: AttributeError
    ELSE ProcessChunk(line.chunk, st)

\* (variant: a line that is not a data line is answered with a ping)
ProcessLine_m(line, st) ==
    IF ~IsDataLine(line) THEN Outcome(st, <<Ping>>, "streaming")
    ELSE ProcessDataLine(line, st)

\* one iteration of "async for line in response.aiter_lines()"
ProcessLine(line, st) ==
    IF ~IsDataLine(line) THEN Outcome(st, <<>>, "streaming")
    ELSE ProcessDataLine(line, st)

----------------------------------------------------------------------------
(* stream_generator: the closing sequence *)

\* last_chunk.get('choices', [{}])[0].get('finish_reason')
FinishReasonOf(chunk) == IF chunk.choices = "one" THEN chunk.finish_reason ELSE None

\* (variant: "if" in place of "elif": the text block is stopped as well)
StopEvents_m(acc, started) ==
    [k \in 1 .. Len(acc) |-> ContentBlockStop(acc[k].idx)]
        \o (IF started THEN <<ContentBlockStop(0)>> ELSE <<>>)

\* the content_block_stop events: the tool-call indices in dict order, else the text block
StopEvents(acc, started) ==
    IF acc # <<>>
    THEN [k \in 1 .. Len(acc) |-> ContentBlockStop(acc[k].idx)]
    ELSE IF started THEN <<ContentBlockStop(0)>> ELSE <<>>

\* usage.get('completion_tokens', 0)
CompletionTokens(u) == IF u.has_completion THEN u.completion_tokens ELSE 0

\* (variant: message_stop is yielded before message_delta)
FinalEvents_m(stop_reason, u) ==
    <<MessageStop, MessageDelta(stop_reason, CompletionTokens(u))>>

\* the events after the content_block_stop events
FinalEvents(stop_reason, u) ==
    <<MessageDelta(stop_reason, CompletionTokens(u)), MessageStop>>

\* the code after the line loop, up to the generator's end: the stops, then
\* message_delta and message_stop; usage.get raises when usage is not a mapping
ClosingSequence(st) ==
    LET stop_reason == map_stop_reason(FinishReasonOf(st.last_chunk))
        stops == StopEvents(st.acc, st.text_block_started)
    IN IF st.usage.kind = "scalar"
       THEN [events |-> stops, next |-> "Error"]
       ELSE [events |-> stops \o FinalEvents(stop_reason, st.usage), next |-> "Finished"]

----------------------------------------------------------------------------
(* messages_proxy: the request and its translation *)

\* message content: a string, a list of blocks, or anything else
Str(t) == [kind |-> "str", text |-> t, blocks |-> <<>>]

Blocks(bs) == [kind |-> "list", text |-> <<>>, blocks |-> bs]

NoContent == [kind |-> "none", text |-> <<>>, blocks |-> <<>>]

\* the 'system' key is not in the payload
NoSystem == [kind |-> "absent", text |-> <<>>, blocks |-> <<>>]

Block(type, text, has_id, id, name, input, tool_use_id, content) ==
    [type |-> type, text |-> text, has_id |-> has_id, id |-> id, name |-> name,
     input |-> input, tool_use_id |-> tool_use_id, content |-> content]

Text(t) == Block("text", t, FALSE, None, None, None, None, <<>>)

ToolUse(id, name, input) == Block("tool_use", <<>>, TRUE, id, name, input, None, <<>>)

\* a tool_use block without the 'id' key
ToolUseNoId(name, input) == Block("tool_use", <<>>, FALSE, None, name, input, None, <<>>)

ToolResult(tool_use_id, content) ==
    Block("tool_result", <<>>, FALSE, None, None, None, tool_use_id, content)

Image == Block("image", <<>>, FALSE, None, None, None, None, <<>>)

Message(role, content) == [role |-> role, content |-> content]

Payload(system, msgs, stream) == [system |-> system, messages |-> msgs, stream |-> stream]

\* the JSON values of a tool input, and json.dumps of each
JsonValues == {"empty", "a1"}

json_dumps(v) ==
    IF v = "empty" THEN <<"{", "}">>
    ELSE <<"{", "\"", "a", "\"", ":", " ", "1", "}">>

\* json.loads: the value whose text this is, or a JSONDecodeError
json_loads(str) ==
    IF \E v \in JsonValues : json_dumps(v) = str
    THEN [ok |-> TRUE, value |-> CHOOSE v \in JsonValues : json_dumps(v) = str]
    ELSE [ok |-> FALSE, value |-> None]

\* ' '.join(texts)
RECURSIVE Join(_, _)
Join(items, k) ==
    IF k = 0 THEN <<>>
    ELSE IF k = 1 THEN items[1].text
    ELSE Join(items, k - 1) \o <<" ">> \o items[k].text

IsText(item) == item.type = "text"

IsToolUse(item) == item.type = "tool_use"

IsToolResult(item) == item.type = "tool_result"

\* the string the content normalizes to, or None
normalize_content(content) ==
    IF content.kind = "str" THEN [is_none |-> FALSE, text |-> content.text]
    ELSE IF content.kind = "list"
         THEN LET texts == SelectSeq(content.blocks, IsText)
              IN [is_none |-> FALSE, text |-> Join(texts, Len(texts))]
    ELSE [is_none |-> TRUE, text |-> <<>>]

\* an outbound message; a key that is not set is <<>> (content, tool_calls)
\* or None (tool_call_id)
OutMessage(role, content, tool_calls, tool_call_id) ==
    [role |-> role, content |-> content, tool_calls |-> tool_calls,
     tool_call_id |-> tool_call_id]

ToolCall(id, name, arguments) ==
    [type |-> "function", id |-> id, name |-> name, arguments |-> arguments]

\* the system message, when the payload has a system prompt that is not empty
SystemMessages(p) ==
    IF p.system.kind = "absent" THEN <<>>
    ELSE LET system_content == normalize_content(p.system)
         IN IF ~system_content.is_none /\ system_content.text # <<>>
            THEN <<OutMessage("system", system_content.text, <<>>, None)>>
            ELSE <<>>

\* (variant: the tool-role messages are appended before the derived message)
TranslateMessage_m(msg) ==
    LET normalized_text == normalize_content(msg.content)
        uses == SelectSeq(msg.content.blocks, IsToolUse)
        tool_calls == [k \in 1 .. Len(uses) |->
                          ToolCall(uses[k].id, uses[k].name, json_dumps(uses[k].input))]
        new_msg == OutMessage(msg.role, normalized_text.text, tool_calls, None)
        results == SelectSeq(msg.content.blocks, IsToolResult)
    IN [raised |-> \E k \in 1 .. Len(uses) : ~uses[k].has_id,
        out |-> [k \in 1 .. Len(results) |->
                    OutMessage("tool", results[k].content, <<>>, results[k].tool_use_id)]
                \o (IF new_msg.content # <<>> \/ new_msg.tool_calls # <<>>
                    THEN <<new_msg>> ELSE <<>>)]

\* one iteration of "for msg in payload.get('messages', [])": the messages it
\* appends, or the KeyError of a tool_use block without an id
TranslateMessage(msg) ==
    LET normalized_text == normalize_content(msg.content)
        uses == SelectSeq(msg.content.blocks, IsToolUse)
        tool_calls == [k \in 1 .. Len(uses) |->
                          ToolCall(uses[k].id, uses[k].name, json_dumps(uses[k].input))]
        new_msg == OutMessage(msg.role, normalized_text.text, tool_calls, None)
        results == SelectSeq(msg.content.blocks, IsToolResult)
    IN [raised |-> \E k \in 1 .. Len(uses) : ~uses[k].has_id,
        out |-> (IF new_msg.content # <<>> \/ new_msg.tool_calls # <<>>
                 THEN <<new_msg>> ELSE <<>>)
                \o [k \in 1 .. Len(results) |->
                       OutMessage("tool", results[k].content, <<>>, results[k].tool_use_id)]]

\* the message loop over the first k inbound messages
RECURSIVE TranslateMessages(_, _)
TranslateMessages(msgs, k) ==
    IF k = 0 THEN [raised |-> FALSE, out |-> <<>>]
    ELSE LET before == TranslateMessages(msgs, k - 1)
             this == TranslateMessage(msgs[k])
         IN IF before.raised \/ this.raised
            THEN [raised |-> TRUE, out |-> <<>>]
            ELSE [raised |-> FALSE, out |-> before.out \o this.out]

\* the translation of a request: the outbound message list, or an exception
Translate(p) ==
    LET r == TranslateMessages(p.messages, Len(p.messages))
    IN [raised |-> r.raised,
        messages |-> IF r.raised THEN <<>> ELSE SystemMessages(p) \o r.out]

\* the responses of messages_proxy
NoResponse == [kind |-> "none", status |-> 0, content |-> <<>>]

\* Response(content=json.dumps({'error': str(e)}), status_code=500)
ErrorResponse == [kind |-> "error", status |-> 500, content |-> <<>>]

\* StreamingResponse(stream_generator(...), media_type='text/event-stream')
StreamingResponse == [kind |-> "event-stream", status |-> 200, content |-> <<>>]

NoData == [kind |-> "none"]

----------------------------------------------------------------------------
(* stream_generator as a state machine *)

StreamInit ==
    /\ pc = "NotStarted"
    /\ events = <<>>
    /\ text_block_started = FALSE
    /\ tool_call_accumulators = <<>>
    /\ usage = EmptyUsage
    /\ last_chunk = EmptyChunk
    /\ status = 0
    /\ consumed = <<>>

\* yield message_start
EmitMessageStart ==
    /\ pc = "NotStarted"
    /\ events' = Append(events, MessageStart)
    /\ pc' = "Started"
    /\ UNCHANGED <<text_block_started, tool_call_accumulators, usage, last_chunk,
                   status, consumed, sanitizerVars, requestVars>>

\* yield ping, then the locals are set up
EmitPing ==
    /\ pc = "Started"
    /\ events' = Append(events, Ping)
    /\ text_block_started' = FALSE
    /\ tool_call_accumulators' = <<>>
    /\ usage' = EmptyUsage
    /\ last_chunk' = EmptyChunk
    /\ pc' = "Connecting"
    /\ UNCHANGED <<status, consumed, sanitizerVars, requestVars>>

\* (variant: only client and server errors raise)
IsSuccess_m(code) == code < 400

\* response.is_success, on which raise_for_status decides
IsSuccess(code) == code >= 200 /\ code <= 299

StatusCodes == {200, 302, 404, 500}

\* (variant: a failed request is answered with a closing message_stop)
Connect_m(code) ==
    /\ pc = "Connecting"
    /\ status' = code
    /\ pc' = IF IsSuccess(code) THEN "Streaming" ELSE "Error"
    /\ events' = IF IsSuccess(code) THEN events ELSE Append(events, MessageStop)
    /\ UNCHANGED <<text_block_started, tool_call_accumulators, usage,
                   last_chunk, consumed, sanitizerVars, requestVars>>

\* client.stream(...) and response.raise_for_status()
Connect(code) ==
    /\ pc = "Connecting"
    /\ status' = code
    /\ pc' = IF IsSuccess(code) THEN "Streaming" ELSE "Error"
    /\ UNCHANGED <<events, text_block_started, tool_call_accumulators, usage,
                   last_chunk, consumed, sanitizerVars, requestVars>>

\* client.stream(...) raises: no response arrives (status -1)
ConnectFails ==
    /\ pc = "Connecting"
    /\ status' = -1
    /\ pc' = "Error"
    /\ UNCHANGED <<events, text_block_started, tool_call_accumulators, usage,
                   last_chunk, consumed, sanitizerVars, requestVars>>

\* the line loop takes one line from the backend; on the terminator the loop
\* is left and the closing code runs
ReadLine(line) ==
    /\ pc = "Streaming"
    /\ Len(consumed) < MaxLines
    /\ LET r == ProcessLine(line, Locals(text_block_started, tool_call_accumulators,
                                         usage, last_chunk))
           c == ClosingSequence(r.st)
       IN /\ events' = events \o r.events \o (IF r.next = "closing" THEN c.events ELSE <<>>)
          /\ text_block_started' = r.st.text_block_started
          /\ tool_call_accumulators' = r.st.acc
          /\ usage' = r.st.usage
          /\ last_chunk' = r.st.last_chunk
          /\ pc' = CASE r.next = "streaming" -> "Streaming"
                     [] r.next = "closing" -> c.next
                     [] OTHER -> "Error"
    /\ consumed' = Append(consumed, line)
    /\ UNCHANGED <<status, sanitizerVars, requestVars>>

\* aiter_lines is exhausted: the backend closed the stream, the closing code runs
BackendCloses ==
    /\ pc = "Streaming"
    /\ LET c == ClosingSequence(Locals(text_block_started, tool_call_accumulators,
                                       usage, last_chunk))
       IN /\ events' = events \o c.events
          /\ pc' = c.next
    /\ UNCHANGED <<text_block_started, tool_call_accumulators, usage, last_chunk,
                   status, consumed, sanitizerVars, requestVars>>

\* aiter_lines raises: the connection broke
BackendFails ==
    /\ pc = "Streaming"
    /\ pc' = "Error"
    /\ UNCHANGED <<events, text_block_started, tool_call_accumulators, usage,
                   last_chunk, status, consumed, sanitizerVars, requestVars>>

\* messages_proxy has handed out the streaming response of a request
StreamRequested ==
    /\ payload = Payload(NoSystem, <<>>, TRUE)
    /\ messages = <<>>
    /\ at = "Returned"
    /\ http = StreamingResponse
    /\ data = NoData

Init ==
    /\ StreamInit
    /\ StreamRequested
    /\ schema = <<>>
    /\ original = <<>>
    /\ applied = 0

Next ==
    \/ EmitMessageStart
    \/ EmitPing
    \/ \E code \in StatusCodes : Connect(code)
    \/ ConnectFails
    \/ \E line \in Lines : ReadLine(line)
    \/ BackendCloses
    \/ BackendFails

Spec == Init /\ [][Next]_vars

----------------------------------------------------------------------------
(* messages_proxy and handle_non_stream as a state machine *)

\* no generator exists before the handler has made one
NoGenerator ==
    /\ pc = "NoGenerator"
    /\ events = <<>>
    /\ text_block_started = FALSE
    /\ tool_call_accumulators = <<>>
    /\ usage = EmptyUsage
    /\ last_chunk = EmptyChunk
    /\ status = 0
    /\ consumed = <<>>

\* the request has arrived, the handler has not run
Received ==
    /\ messages = <<>>
    /\ at = "Received"
    /\ http = NoResponse
    /\ data = NoData
    /\ schema = <<>>
    /\ original = <<>>
    /\ applied = 0

\* messages_proxy up to its first await after request.json(): the translation,
\* then the StreamingResponse, the backend request of handle_non_stream, or
\* the catch-all's error body
HandleRequest ==
    /\ at = "Received"
    /\ LET t == Translate(payload)
       IN /\ messages' = t.messages
          /\ at' = IF t.raised \/ payload.stream THEN "Returned" ELSE "Posting"
          /\ http' = IF t.raised THEN ErrorResponse
                     ELSE IF payload.stream THEN StreamingResponse ELSE http
          /\ pc' = IF ~t.raised /\ payload.stream THEN "NotStarted" ELSE pc
    /\ UNCHANGED <<events, text_block_started, tool_call_accumulators, usage,
                   last_chunk, status, consumed, sanitizerVars, payload, data>>

\* the backend's body: choices "one", "empty" or "absent", the message's
\* content and tool calls, the finish reason, and whether usage is there
Body(choices, content, tool_calls, finish_reason, has_usage) ==
    [kind |-> "body", choices |-> choices, content |-> content,
     tool_calls |-> tool_calls, finish_reason |-> finish_reason,
     has_usage |-> has_usage]

TextPart(t) == [type |-> "text", text |-> t, id |-> None, name |-> None, input |-> None]

ToolUsePart(id, name, input) ==
    [type |-> "tool_use", text |-> <<>>, id |-> id, name |-> name, input |-> input]

\* the tool_use parts of the first k tool calls; json.loads of the arguments
\* may raise, and parts holds what was built until then
RECURSIVE ToolParts(_, _)
ToolParts(tcs, k) ==
    IF k = 0 THEN [raised |-> FALSE, parts |-> <<>>]
    ELSE LET before == ToolParts(tcs, k - 1)
             input == json_loads(tcs[k].arguments)
         IN IF before.raised \/ ~input.ok
            THEN [raised |-> TRUE, parts |-> before.parts]
            ELSE [raised |-> FALSE,
                  parts |-> Append(before.parts,
                                   ToolUsePart(tcs[k].id, tcs[k].name, input.value))]

MessageResponse(content_parts, stop_reason) ==
    [kind |-> "message", status |-> 200, content |-> content_parts,
     stop_reason |-> stop_reason]

\* (variant: a tool call whose arguments do not decode ends the content, and
\* the message built so far is returned)
BuildResponse_m(body) ==
    IF body.choices # "one" THEN ErrorResponse
    ELSE LET text == IF body.content # <<>> THEN <<TextPart(body.content)>> ELSE <<>>
             tools == ToolParts(body.tool_calls, Len(body.tool_calls))
         IN IF ~body.has_usage THEN ErrorResponse
            ELSE MessageResponse(text \o tools.parts, map_stop_reason(body.finish_reason))

\* handle_non_stream after response.json(): the response, or the error body
\* of the catch-all when a key is missing or an argument string does not decode
BuildResponse(body) ==
    IF body.choices # "one" THEN ErrorResponse
    ELSE LET text == IF body.content # <<>> THEN <<TextPart(body.content)>> ELSE <<>>
             tools == ToolParts(body.tool_calls, Len(body.tool_calls))
         IN IF tools.raised \/ ~body.has_usage THEN ErrorResponse
            ELSE MessageResponse(text \o tools.parts, map_stop_reason(body.finish_reason))

\* client.post returns: raise_for_status, response.json(), the response
PostReturns(code, body) ==
    /\ at = "Posting"
    /\ status' = code
    /\ data' = IF IsSuccess(code) THEN body ELSE data
    /\ http' = IF IsSuccess(code) THEN BuildResponse(body) ELSE ErrorResponse
    /\ at' = "Returned"
    /\ UNCHANGED <<pc, events, text_block_started, tool_call_accumulators, usage,
                   last_chunk, consumed, sanitizerVars, payload, messages>>

\* client.post raises: no response arrives (status -1)
PostFails ==
    /\ at = "Posting"
    /\ status' = -1
    /\ http' = ErrorResponse
    /\ at' = "Returned"
    /\ UNCHANGED <<pc, events, text_block_started, tool_call_accumulators, usage,
                   last_chunk, consumed, sanitizerVars, payload, messages, data>>

A == <<"a">>

B == <<"b">>

Contents ==
    {Str(<<>>), Str(He), NoContent, Blocks(<<>>),
     Blocks(<<Text(A)>>),
     Blocks(<<Text(<<>>), Text(<<>>)>>),
     Blocks(<<Image, Text(<<>>)>>),
     Blocks(<<ToolUse("t1", "get", "a1")>>),
     Blocks(<<Text(A), ToolUse("t1", "get", "empty"), ToolResult("abc", B)>>),
     Blocks(<<ToolResult("abc", B)>>),
     Blocks(<<ToolResult("abc", B), ToolResult("t1", <<>>)>>),
     Blocks(<<ToolResult("abc", B), Text(B)>>),
     Blocks(<<ToolUseNoId("get", "empty")>>)}

InboundMessages == {Message(role, c) : role \in {"user", "assistant"}, c \in Contents}

RECURSIVE SeqsOf(_, _)
SeqsOf(S, n) ==
    IF n = 0 THEN {<<>>}
    ELSE LET shorter == SeqsOf(S, n - 1)
         IN shorter \cup {Append(q, x) : q \in {r \in shorter : Len(r) = n - 1}, x \in S}

TranslateInit ==
    /\ NoGenerator
    /\ Received
    /\ payload \in {Payload(sys, msgs, FALSE) :
                        sys \in {NoSystem, Str(<<>>), Str(A)},
                        msgs \in SeqsOf(InboundMessages, MaxMsgs)}

TranslateNext == HandleRequest

TranslateSpec == TranslateInit /\ [][TranslateNext]_vars

Bodies ==
    {Body("one", He, <<>>, "stop", TRUE),
     Body("one", <<>>, <<ToolCall("call_a", "get", json_dumps("empty")),
                         ToolCall("call_b", "get", json_dumps("a1"))>>, "tool_calls", TRUE),
     Body("one", He, <<ToolCall("call_a", "get", json_dumps("a1")),
                       ToolCall("call_b", "get", Frag1)>>, "tool_calls", TRUE),
     Body("one", <<>>, <<ToolCall("call_a", "get", <<>>)>>, "tool_calls", TRUE),
     Body("empty", <<>>, <<>>, None, TRUE),
     Body("one", He, <<>>, "length", FALSE)}

ProxyPayloads ==
    {Payload(NoSystem, <<Message("user", c)>>, stream) :
        c \in {Str(He), Blocks(<<ToolUseNoId("get", "empty")>>)}, stream \in BOOLEAN}

ProxyLines ==
    {Line("other", "object", EmptyChunk),
     Line("data: ", "[DONE]", EmptyChunk),
     TextLine(He),
     ToolLine(<<First(1, Frag1)>>),
     ObjectLine(Chunk(Counters(2), "empty", EmptyDelta, None))}

ProxyInit ==
    /\ NoGenerator
    /\ Received
    /\ payload \in ProxyPayloads

ProxyNext ==
    \/ HandleRequest
    \/ \E code \in StatusCodes, body \in Bodies : PostReturns(code, body)
    \/ PostFails
    \/ EmitMessageStart
    \/ EmitPing
    \/ \E code \in StatusCodes : Connect(code)
    \/ ConnectFails
    \/ \E line \in ProxyLines : ReadLine(line)
    \/ BackendCloses
    \/ BackendFails

ProxySpec == ProxyInit /\ [][ProxyNext]_vars

----------------------------------------------------------------------------
(* remove_uri_format: JSON-like trees and the sanitizer *)

Absent == [kind |-> "absent"]

Scalar(v) == [kind |-> "scalar", val |-> v]

\* a mapping with the keys type, format and items, each present or Absent
Dict(type, format, items) ==
    [kind |-> "dict", type |-> type, format |-> format, items |-> items]

List(elems) == [kind |-> "list", elems |-> elems]

RECURSIVE remove_uri_format(_)
remove_uri_format(tree) ==
    CASE tree.kind = "dict" ->
            IF tree.type = Scalar("string") /\ tree.format = Scalar("uri")
            THEN [tree EXCEPT !.format = Absent]
            ELSE Dict(IF tree.type = Absent THEN Absent ELSE remove_uri_format(tree.type),
                      IF tree.format = Absent THEN Absent ELSE remove_uri_format(tree.format),
                      IF tree.items = Absent THEN Absent ELSE remove_uri_format(tree.items))
      [] tree.kind = "list" ->
            List([k \in 1 .. Len(tree.elems) |-> remove_uri_format(tree.elems[k])])
      [] OTHER -> tree

TypeValues == {Absent, Scalar("string"), Scalar("object")}

FormatValues == {Absent, Scalar("uri"), Scalar("date")}

RECURSIVE TreesOf(_)
TreesOf(depth) ==
    IF depth = 0
    THEN {Scalar("string"), Scalar("uri")}
    ELSE LET sub == TreesOf(depth - 1)
         IN sub
            \cup {Dict(t, f, c) : t \in TypeValues, f \in FormatValues, c \in sub \cup {Absent}}
            \cup {List(<<c>>) : c \in sub}

Trees == TreesOf(MaxDepth)

SanitizerInit ==
    /\ StreamInit
    /\ StreamRequested
    /\ schema \in Trees
    /\ original = schema
    /\ applied = 0

\* 'parameters': remove_uri_format(tool['input_schema']), applied once more to its result
Sanitize ==
    /\ applied < MaxApply
    /\ schema' = remove_uri_format(schema)
    /\ applied' = applied + 1
    /\ UNCHANGED <<original, streamVars, requestVars>>

SanitizerNext == Sanitize

SanitizerSpec == SanitizerInit /\ [][SanitizerNext]_vars

----------------------------------------------------------------------------
(* Properties of the event stream *)

\* positions of the events of a type that carry an index
At(type, i) == {k \in 1 .. Len(events) : events[k].type = type /\ events[k].index = i}

OfType(type) == {k \in 1 .. Len(events) : events[k].type = type}

\* the tool-call indices the translator has seen
ToolIndices == {tool_call_accumulators[k].idx : k \in 1 .. Len(tool_call_accumulators)}

\* the indices for which a block was opened
OpenedIndices == {events[k].index : k \in OfType("content_block_start")}

\* the chunks the line loop decoded: data lines that hold a JSON object
RECURSIVE ParsedChunks(_)
ParsedChunks(lines) ==
    IF lines = <<>> THEN <<>>
    ELSE IF IsDataLine(Head(lines)) /\ data_str(Head(lines)) = "object"
         THEN <<Head(lines).chunk>> \o ParsedChunks(Tail(lines))
         ELSE ParsedChunks(Tail(lines))

\* C1: every tool-call index has exactly one content_block_start, which comes
\* before every content_block_delta of that index, and every such delta comes
\* before the index's single content_block_stop, present once the stream has
\* ended cleanly.
C1_PerIndexOrdering ==
    \A i \in ToolIndices :
        /\ Cardinality(At("content_block_start", i)) = 1
        /\ \A s \in At("content_block_start", i) :
              \A d \in At("content_block_delta", i) : s < d
        /\ \A d \in At("content_block_delta", i) :
              \A p \in At("content_block_stop", i) : d < p
        /\ Cardinality(At("content_block_stop", i)) <= 1
        /\ pc = "Finished" => Cardinality(At("content_block_stop", i)) = 1

\* C2: after a clean end every opened content block, the text block at index 0
\* and every tool-call index, has exactly one content_block_stop.
C2_EveryOpenedBlockStopped ==
    pc = "Finished" =>
        \A i \in OpenedIndices : Cardinality(At("content_block_stop", i)) = 1

\* C3: after a clean end the events are phase-ordered: no content_block_start
\* or content_block_delta follows a content_block_stop, the stops are followed
\* by exactly one message_delta and then exactly one message_stop, and
\* message_stop is the last event; it is never followed by anything.
C3_PhaseOrder ==
    /\ \A k \in OfType("message_stop") : k = Len(events) /\ pc = "Finished"
    /\ pc = "Finished" =>
          LET n == Len(events)
          IN /\ n >= 4
             /\ events[n].type = "message_stop"
             /\ events[n - 1].type = "message_delta"
             /\ OfType("message_stop") = {n}
             /\ OfType("message_delta") = {n - 1}
             /\ \A j \in OfType("content_block_stop") :
                   \A k \in j .. n - 2 : events[k].type = "content_block_stop"

\* C3 witness: a clean end after the terminator, with a delta and a stop emitted
C3_Witness ==
    /\ pc = "Finished"
    /\ OfType("content_block_delta") # {}
    /\ OfType("content_block_stop") # {}
    /\ consumed # <<>>
    /\ consumed[Len(consumed)] = Line("data: ", "[DONE]", EmptyChunk)

\* C4: every response begins with one message_start and then one ping, and
\* neither is emitted again, whatever the backend sends.
C4_Preamble ==
    /\ pc # "NotStarted" => Len(events) >= 1
    /\ pc \notin {"NotStarted", "Started"} => Len(events) >= 2
    /\ OfType("message_start") = {1} \cap (1 .. Len(events))
    /\ OfType("ping") = {2} \cap (1 .. Len(events))

\* C4 witness: the backend sent only a malformed line and then closed
C4_Witness ==
    /\ pc = "Finished"
    /\ consumed = <<Line("data: ", "garbage", EmptyChunk)>>
    /\ events[1] = MessageStart
    /\ events[2] = Ping

\* C5: after a non-2xx answer the generator has ended with an error, no
\* message_delta or message_stop is ever emitted and no line is read; the
\* events hold nothing but what was emitted before the request.
C5_NoCloseOnBadStatus ==
    (status # 0 /\ ~(status >= 200 /\ status <= 299)) =>
        /\ pc = "Error"
        /\ OfType("message_stop") = {}
        /\ OfType("message_delta") = {}
        /\ \A k \in 1 .. Len(events) : events[k].type \in {"message_start", "ping"}
        /\ consumed = <<>>

\* C5 witness: the backend answered 500
C5_Witness == status = 500 /\ pc = "Error"

\* the line loop's result for a sequence of lines, from the locals and events in r
RECURSIVE Replay(_, _)
Replay(lines, r) ==
    IF lines = <<>> \/ r.next # "streaming" THEN r
    ELSE LET o == ProcessLine(Head(lines), r.st)
         IN Replay(Tail(lines), Outcome(o.st, r.events \o o.events, o.next))

Malformed(line) == IsDataLine(line) /\ data_str(line) \notin {"[DONE]", "object", "scalar"}

WellFormed(line) == ~Malformed(line)

\* C6 (state part): the locals and the events are those of the same lines
\* without the malformed ones.
C6_AsIfAbsent ==
    pc = "Streaming" =>
        LET r == Replay(SelectSeq(consumed, WellFormed),
                        Outcome(Locals(FALSE, <<>>, EmptyUsage, EmptyChunk), <<>>, "streaming"))
        IN /\ events = <<MessageStart, Ping>> \o r.events
           /\ r.st = Locals(text_block_started, tool_call_accumulators, usage, last_chunk)

\* C6: a data line whose payload is not valid JSON emits no event and changes
\* none of the stream state, and the lines after it are processed as if it
\* had not been there.
C6_MalformedSkipped ==
    /\ [][(Len(consumed') = Len(consumed) + 1 /\ Malformed(consumed'[Len(consumed')]))
            => /\ UNCHANGED <<events, text_block_started, tool_call_accumulators,
                              usage, last_chunk>>
               /\ pc' = "Streaming"]_vars
    /\ []C6_AsIfAbsent

\* C6 witness: a malformed line between a finish chunk and a text chunk
C6_Witness ==
    /\ Len(consumed) = 3
    /\ consumed[1] = FinishLine("tool_calls")
    /\ Malformed(consumed[2])
    /\ consumed[3] = TextLine(He)
    /\ last_chunk = consumed[3].chunk
    /\ OfType("content_block_delta") # {}

\* the last finish reason that is not absent, None when there is none
RECURSIVE LastFinishReason(_)
LastFinishReason(chunks) ==
    IF chunks = <<>> THEN None
    ELSE LET c == chunks[Len(chunks)]
         IN IF c.choices = "one" /\ c.finish_reason # None
            THEN c.finish_reason
            ELSE LastFinishReason(SubSeq(chunks, 1, Len(chunks) - 1))

\* the finish-reason table of the specification
StopReasonTable(finish_reason) ==
    CASE finish_reason = "tool_calls" -> "tool_use"
      [] finish_reason = "stop" -> "end_turn"
      [] finish_reason = "length" -> "max_tokens"
      [] OTHER -> "end_turn"

\* C7: after a clean end, message_delta carries the table's value for the last
\* finish reason that is not absent among the parsed chunks (end_turn when
\* there is none); a later chunk without a finish reason does not erase it.
C7_LastFinishReasonKept ==
    pc = "Finished" =>
        events[Len(events) - 1].stop_reason
            = StopReasonTable(LastFinishReason(ParsedChunks(consumed)))

\* the completion-token count of the last chunk that carried usage counters
RECURSIVE LastCompletionTokens(_)
LastCompletionTokens(chunks) ==
    IF chunks = <<>> THEN 0
    ELSE LET c == chunks[Len(chunks)]
         IN IF c.usage.kind = "counters"
            THEN (IF c.usage.has_completion THEN c.usage.completion_tokens ELSE 0)
            ELSE LastCompletionTokens(SubSeq(chunks, 1, Len(chunks) - 1))

\* C8: after a clean end, output_tokens in message_delta is the completion-token
\* count of the last parsed chunk that carried usage counters, 0 when there is
\* none; chunks without usage do not reset it.
C8_OutputTokens ==
    pc = "Finished" =>
        events[Len(events) - 1].output_tokens = LastCompletionTokens(ParsedChunks(consumed))

\* C8 witness: two usage-bearing chunks, then a chunk with an empty usage object
C8_Witness ==
    /\ pc = "Finished"
    /\ consumed = <<ObjectLine(Chunk(Counters(1), "one", EmptyDelta, "length")),
                    UsageLine(Counters(2)), UsageLine(EmptyUsage)>>
    /\ events[Len(events) - 1].output_tokens = 2

\* the partial_json fields of the first k events' deltas for index i, concatenated
RECURSIVE PartialJson(_, _)
PartialJson(k, i) ==
    IF k = 0 THEN <<>>
    ELSE LET e == events[k]
         IN IF e.type = "content_block_delta" /\ e.block = "input_json_delta" /\ e.index = i
            THEN PartialJson(k - 1, i) \o e.text
            ELSE PartialJson(k - 1, i)

\* the argument fragments for index i in the first k tool-call deltas of a chunk
RECURSIVE FragmentsFor(_, _, _)
FragmentsFor(tcs, k, i) ==
    IF k = 0 THEN <<>>
    ELSE IF tcs[k].has_index /\ tcs[k].index = i
         THEN FragmentsFor(tcs, k - 1, i) \o tcs[k].arguments
         ELSE FragmentsFor(tcs, k - 1, i)

\* the argument fragments the backend sent for index i in the first k lines
RECURSIVE SentArgs(_, _)
SentArgs(k, i) ==
    IF k = 0 THEN <<>>
    ELSE LET l == consumed[k]
         IN IF IsDataLine(l) /\ data_str(l) = "object" /\ l.chunk.choices = "one"
            THEN SentArgs(k - 1, i)
                    \o FragmentsFor(l.chunk.delta.tool_calls, Len(l.chunk.delta.tool_calls), i)
            ELSE SentArgs(k - 1, i)

AccumulatedArgs(i) ==
    IF InAccumulators(tool_call_accumulators, i)
    THEN AccumulatorOf(tool_call_accumulators, i).args
    ELSE <<>>

\* C9: for every tool-call index, at every point of the stream, the emitted
\* partial_json fields concatenate to the accumulator's argument string, which
\* is the concatenation of the argument fragments the backend sent for it.
C9_ArgumentsPassThrough ==
    \A i \in Indices :
        /\ PartialJson(Len(events), i) = AccumulatedArgs(i)
        /\ AccumulatedArgs(i) = SentArgs(Len(consumed), i)

\* C9 witness: two fragments for one index with a fragment for another between
C9_Witness ==
    \E i, j \in Indices :
        /\ i # j
        /\ AccumulatedArgs(i) = Frag1 \o Frag2
        /\ AccumulatedArgs(j) = Frag1
        /\ Cardinality(At("content_block_delta", i)) = 2
        /\ Len(consumed) = 3
        /\ consumed[2] = ToolLine(<<First(j, Frag1)>>)

\* some mapping node of the tree has type "string" and format "uri"
RECURSIVE HasUriNode(_)
HasUriNode(tree) ==
    CASE tree.kind = "dict" ->
            \/ tree.type = Scalar("string") /\ tree.format = Scalar("uri")
            \/ HasUriNode(tree.type)
            \/ HasUriNode(tree.format)
            \/ HasUriNode(tree.items)
      [] tree.kind = "list" -> \E k \in 1 .. Len(tree.elems) : HasUriNode(tree.elems[k])
      [] OTHER -> FALSE

\* C10: one application of remove_uri_format leaves no mapping node with type
\* "string" and format "uri" at any depth, and a second application changes
\* nothing.
C10_SanitizerIdempotent ==
    /\ applied >= 1 => ~HasUriNode(schema)
    /\ applied >= 2 => schema = remove_uri_format(original)

\* C13: after a clean end the content_block_stop events come in ascending
\* index order, in whatever order the backend introduced the indices.
C13_StopsAscending ==
    pc = "Finished" =>
        \A j, k \in OfType("content_block_stop") :
            j < k => events[j].index < events[k].index

\* C14: index 0 belongs to the text block alone: no tool-use block is started,
\* given deltas or stopped at index 0, and no two content_block_start events
\* carry the same index.
C14_IndexZeroReserved ==
    /\ \A k \in 1 .. Len(events) :
          events[k].block \in {"tool_use", "input_json_delta"} => events[k].index # 0
    /\ 0 \notin ToolIndices
    /\ \A i \in OpenedIndices : Cardinality(At("content_block_start", i)) = 1

\* C15: at a clean end exactly one closing branch has run: with tool-call
\* accumulators, one content_block_stop per tool-call index and none for the
\* text block, opened or not; without them, one stop at index 0 if the text
\* block was opened and no stop at all otherwise.
C15_OneClosingBranch ==
    pc = "Finished" =>
        LET stops == OfType("content_block_stop")
        IN IF tool_call_accumulators # <<>>
           THEN /\ \A i \in ToolIndices : Cardinality(At("content_block_stop", i)) = 1
                /\ \A k \in stops : events[k].index \in ToolIndices
           ELSE IF text_block_started
                THEN Cardinality(stops) = 1 /\ \A k \in stops : events[k].index = 0
                ELSE stops = {}

\* C15 witness: text and a tool call at index 1 were both opened; only index 1 is stopped
C15_Witness ==
    /\ pc = "Finished"
    /\ text_block_started
    /\ ToolIndices = {1}
    /\ At("content_block_stop", 0) = {}
    /\ Cardinality(At("content_block_stop", 1)) = 1

\* the text fragments of the first k lines' chunks, concatenated
RECURSIVE TextSent(_)
TextSent(k) ==
    IF k = 0 THEN <<>>
    ELSE LET l == consumed[k]
         IN IF IsDataLine(l) /\ data_str(l) = "object" /\ l.chunk.choices = "one"
            THEN TextSent(k - 1) \o l.chunk.delta.content
            ELSE TextSent(k - 1)

\* the lines whose chunk carries non-empty text
TextChunks ==
    {k \in 1 .. Len(consumed) :
        /\ IsDataLine(consumed[k]) /\ data_str(consumed[k]) = "object"
        /\ consumed[k].chunk.choices = "one"
        /\ consumed[k].chunk.delta.content # <<>>}

\* the text fields of the first k events' text deltas, concatenated
RECURSIVE TextEmitted(_)
TextEmitted(k) ==
    IF k = 0 THEN <<>>
    ELSE IF events[k].block = "text_delta"
         THEN TextEmitted(k - 1) \o events[k].text
         ELSE TextEmitted(k - 1)

TextStarts == {k \in 1 .. Len(events) : events[k].block = "text"}

TextDeltas == {k \in 1 .. Len(events) : events[k].block = "text_delta"}

\* C16: the text block's content_block_start (index 0, empty text) is emitted
\* once, right before the delta of the first chunk with non-empty text; every
\* such chunk yields one content_block_delta at index 0 with its fragment, the
\* deltas concatenate to the backend's text, and the text-opened flag is set
\* exactly when such a chunk has been processed (so it never returns to false).
C16_TextBlock ==
    /\ Cardinality(TextStarts) = (IF TextChunks # {} THEN 1 ELSE 0)
    /\ \A s \in TextStarts :
          /\ events[s] = TextBlockStart
          /\ s + 1 \in TextDeltas
          /\ \A d \in TextDeltas : s < d
    /\ Cardinality(TextDeltas) = Cardinality(TextChunks)
    /\ \A d \in TextDeltas : events[d].index = 0 /\ events[d].type = "content_block_delta"
    /\ TextEmitted(Len(events)) = TextSent(Len(consumed))
    /\ text_block_started <=> TextChunks # {}

\* C16 witness: the chunks "He" and "llo" gave one start and two deltas
C16_Witness ==
    /\ TextEmitted(Len(events)) = He \o llo
    /\ Cardinality(TextStarts) = 1
    /\ Cardinality(TextDeltas) = 2
    /\ text_block_started

\* the tool-call deltas of a chunk that are processed: those before the first
\* one without an index
RECURSIVE Processed(_, _)
Processed(tcs, k) ==
    IF k = 0 THEN <<>>
    ELSE LET p == Processed(tcs, k - 1)
         IN IF Len(p) = k - 1 /\ tcs[k].has_index THEN Append(p, tcs[k]) ELSE p

\* the processed tool-call deltas of the first k lines, in arrival order
RECURSIVE Fragments(_)
Fragments(k) ==
    IF k = 0 THEN <<>>
    ELSE LET l == consumed[k]
         IN IF IsDataLine(l) /\ data_str(l) = "object" /\ l.chunk.choices = "one"
            THEN Fragments(k - 1)
                    \o Processed(l.chunk.delta.tool_calls, Len(l.chunk.delta.tool_calls))
            ELSE Fragments(k - 1)

\* index, id and name of the first fragment of every index, in order of first sight
RECURSIVE FirstSeen(_, _)
FirstSeen(frags, k) ==
    IF k = 0 THEN <<>>
    ELSE LET p == FirstSeen(frags, k - 1)
         IN IF \E j \in 1 .. Len(p) : p[j].idx = frags[k].index
            THEN p
            ELSE Append(p, [idx |-> frags[k].index, id |-> frags[k].id,
                            name |-> frags[k].name])

\* index, id and name of the tool-use starts among the first k events, in order
RECURSIVE ToolStarts(_)
ToolStarts(k) ==
    IF k = 0 THEN <<>>
    ELSE IF events[k].type = "content_block_start" /\ events[k].block = "tool_use"
         THEN Append(ToolStarts(k - 1), [idx |-> events[k].index, id |-> events[k].id,
                                         name |-> events[k].name])
         ELSE ToolStarts(k - 1)

\* C17: the accumulators are, in order of first sight, the indices the backend
\* has sent, each with the id and name of its first fragment (later fragments
\* change neither, none is removed), and the tool-use content_block_start
\* events are exactly these, one per index with that id and name and an empty
\* input, also when the first fragment has no arguments; a fragment without
\* arguments yields no delta.
C17_AccumulatorLifecycle ==
    LET frags == Fragments(Len(consumed))
        first == FirstSeen(frags, Len(frags))
    IN /\ [k \in 1 .. Len(tool_call_accumulators) |->
              [idx |-> tool_call_accumulators[k].idx,
               id |-> tool_call_accumulators[k].id,
               name |-> tool_call_accumulators[k].name]] = first
       /\ ToolStarts(Len(events)) = first
       /\ \A k \in 1 .. Len(events) : events[k].block = "tool_use" => events[k].text = <<>>
       /\ \A i \in Indices :
             Cardinality({k \in At("content_block_delta", i) :
                             events[k].block = "input_json_delta"})
                = Cardinality({k \in 1 .. Len(frags) :
                                 frags[k].index = i /\ frags[k].arguments # <<>>})

\* C17 witness: index 1 was opened by a fragment without arguments and got
\* its arguments from a later fragment without id or name
C17_Witness ==
    /\ consumed = <<ToolLine(<<First(1, <<>>)>>), ToolLine(<<More(1, Frag2)>>)>>
    /\ Len(tool_call_accumulators) = 1
    /\ tool_call_accumulators[1].id = "call_a"
    /\ tool_call_accumulators[1].args = Frag2
    /\ Cardinality(At("content_block_start", 1)) = 1

\* a data line carrying the terminator token
Terminator(line) == IsDataLine(line) /\ data_str(line) = "[DONE]"

\* the consumed lines without a closing terminator
LinesBeforeEnd ==
    IF consumed # <<>> /\ Terminator(consumed[Len(consumed)])
    THEN SubSeq(consumed, 1, Len(consumed) - 1)
    ELSE consumed

\* C18 (state part): a finished response is the preamble, the events of the
\* lines before the end and the closing sequence of the locals they left,
\* whether or not a terminator ended them; no line is consumed after a
\* terminator, and a terminator ends the loop.
C18_SameClosing ==
    LET r == Replay(LinesBeforeEnd, Outcome(Locals(FALSE, <<>>, EmptyUsage, EmptyChunk),
                                  <<>>, "streaming"))
    IN /\ pc = "Finished" =>
            /\ r.next = "streaming"
            /\ ClosingSequence(r.st).next = "Finished"
            /\ events = <<MessageStart, Ping>> \o r.events \o ClosingSequence(r.st).events
       /\ \A k \in 1 .. Len(consumed) - 1 : ~Terminator(consumed[k])
       /\ (consumed # <<>> /\ Terminator(consumed[Len(consumed)])) => pc # "Streaming"

Contentless(line) ==
    /\ IsDataLine(line)
    /\ data_str(line) = "object"
    /\ \/ line.chunk.choices \in {"absent", "empty"}
       \/ line.chunk.choices = "one" /\ DeltaIsEmpty(line.chunk.delta)

\* C19: a parsed chunk without choices, with an empty choices list or with an
\* empty or absent delta emits no event and leaves the translator streaming.
C19_ContentlessChunkKeepsStreaming ==
    [][(pc = "Streaming" /\ Len(consumed') = Len(consumed) + 1
          /\ Contentless(consumed'[Len(consumed')]))
         => pc' = "Streaming" /\ events' = events]_vars

\* C20: message_start and ping are out before the backend is contacted, and a
\* failed request (no response, or a status outside 2xx) leaves exactly these
\* two events.
C20_FailedRequest ==
    /\ pc \in {"NotStarted", "Started"} => status = 0
    /\ status # 0 => Len(events) >= 2 /\ SubSeq(events, 1, 2) = <<MessageStart, Ping>>
    /\ (status # 0 /\ ~IsSuccess(status)) => events = <<MessageStart, Ping>>

\* C20 witness: the connection to the backend failed
C20_Witness == status = -1 /\ pc = "Error" /\ Len(events) = 2

\* the inbound message has text: a non-empty string, or a block list whose
\* text blocks join to a non-empty string
HasText(c) ==
    \/ c.kind = "str" /\ c.text # <<>>
    \/ /\ c.kind = "list"
       /\ LET texts == SelectSeq(c.blocks, IsText)
          IN Len(texts) >= 2 \/ (Len(texts) = 1 /\ texts[1].text # <<>>)

HasToolCalls(c) == \E k \in 1 .. Len(c.blocks) : c.blocks[k].type = "tool_use"

\* what the claim fixes of an outbound message: its role, the tool call it
\* answers, and which of text and tool calls it carries
Shape(role, tool_call_id, text, calls) ==
    [role |-> role, tool_call_id |-> tool_call_id, text |-> text, calls |-> calls]

ShapeOf(m) ==
    IF m.role = "tool" THEN Shape("tool", m.tool_call_id, FALSE, FALSE)
    ELSE Shape(m.role, None, m.content # <<>>, m.tool_calls # <<>>)

\* the shapes the first k inbound messages must give, in order
RECURSIVE ExpectedShapes(_, _)
ExpectedShapes(msgs, k) ==
    IF k = 0 THEN <<>>
    ELSE LET c == msgs[k].content
             results == SelectSeq(c.blocks, IsToolResult)
         IN ExpectedShapes(msgs, k - 1)
            \o (IF HasText(c) \/ HasToolCalls(c)
                THEN <<Shape(msgs[k].role, None, HasText(c), HasToolCalls(c))>>
                ELSE <<>>)
            \o [j \in 1 .. Len(results) |->
                   Shape("tool", results[j].tool_use_id, FALSE, FALSE)]

\* the outbound messages after the system message
AfterSystem ==
    IF messages # <<>> /\ messages[1].role = "system" THEN Tail(messages) ELSE messages

\* C11: after a translation that did not fail, the outbound list (after the
\* system message) is, inbound message by inbound message in order, the
\* derived message exactly when the inbound message has text or tool calls,
\* carrying whichever of the two it has, followed by one tool-role message per
\* tool-result block in block order with tool_call_id equal to the block's
\* tool_use_id.
C11_OutboundOrder ==
    (at # "Received" /\ http # ErrorResponse) =>
        [k \in 1 .. Len(AfterSystem) |-> ShapeOf(AfterSystem[k])]
            = ExpectedShapes(payload.messages, Len(payload.messages))

\* C11 witness: an assistant tool call, then a user message with a tool
\* result before its text: the user message comes first, the tool message
\* right after it
C11_Witness ==
    /\ at = "Posting"
    /\ payload.messages = <<Message("assistant", Blocks(<<ToolUse("t1", "get", "a1")>>)),
                            Message("user", Blocks(<<ToolResult("abc", B), Text(B)>>))>>
    /\ Len(messages) = 3
    /\ messages[2].role = "user"
    /\ messages[3].role = "tool"
    /\ messages[3].tool_call_id = "abc"

\* the non-streaming request failed: no 2xx answer (translation raised,
\* connection failed, status outside 2xx), a body without a first choice or
\* without usage, or a tool call whose arguments do not decode
RequestFailed ==
    \/ ~IsSuccess(status)
    \/ data.choices # "one"
    \/ ~data.has_usage
    \/ \E k \in 1 .. Len(data.tool_calls) : ~json_loads(data.tool_calls[k].arguments).ok

\* C12 (state part): a returned non-streaming request that failed has the
\* error body with status 500, and one that did not fail has the whole
\* message; an error body exists only where no event was emitted, and a
\* started generator's response stays the event stream.
C12_ErrorOrWhole ==
    /\ (at = "Returned" /\ ~payload.stream) =>
          IF RequestFailed
          THEN http.kind = "error" /\ http.status = 500 /\ http.content = <<>>
          ELSE /\ http.kind = "message"
               /\ http.status = 200
               /\ Len(http.content)
                     = (IF data.content # <<>> THEN 1 ELSE 0) + Len(data.tool_calls)
    /\ http.kind = "error" => pc = "NoGenerator" /\ events = <<>>
    /\ pc # "NoGenerator" => http = StreamingResponse

\* C12: on the non-streaming path every failure gives the one error body with
\* status 500 and never a partly built message; the response, once handed
\* out, is never replaced, so a started event stream never gets an error body.
C12_NoPartialResponse ==
    /\ [][http # NoResponse => http' = http]_vars
    /\ []C12_ErrorOrWhole

\* C12 witness: the backend answered 200 with a second tool call whose
\* arguments do not decode; the client got the error body
C12_Witness ==
    /\ at = "Returned"
    /\ ~payload.stream
    /\ status = 200
    /\ data = Body("one", He, <<ToolCall("call_a", "get", json_dumps("a1")),
                                ToolCall("call_b", "get", Frag1)>>, "tool_calls", TRUE)
    /\ http = ErrorResponse

====
